---- MODULE Spec2Model ----
(***************************************************************************)
(* Model of prism.core.imager.SparseModelingImager: the cross-validation   *)
(* parameter search cvforgridvis, with initializecv, finalizecv,           *)
(* computegridmse, mfista, exportimage and the griddedvis setter.          *)
(*                                                                         *)
(* Regularization weights are floats in the program.  The model draws them *)
(* from a small set of integers: -1 (outside the domain of a weight and of *)
(* math.log10, as is every value <= 0), 1 and 2 (two different weights     *)
(* with the same int(math.log10(.))) and 10.  A mean square error is the   *)
(* exact rational <<sum, count>>.                                          *)
(***************************************************************************)
EXTENDS Integers, Sequences, FiniteSets, TLC

\* ---------------------------------------------------------------- bounds
MaxLen == 2
MaxFold == 2

\* -------------------------------------------------------- input domains
L1Values == {-1, 1, 2, 10}
LtsvValues == {-1, 1, 10}
FoldErrors == {0, 1}
ImagePolicies == {"best", "full", "all"}
ImagePrefixes == {"image", "L1_0_Ltsv_0"}
DataFiles == {"None", "mse.dat"}

SeqsUpTo(S, n) == UNION {[1..k -> S] : k \in 0..n}

\* numpy.asarray(list): element type and data.  A list holding a non-number
\* (None) becomes an array of dtype object; a list holding a string becomes
\* an array of strings; such arrays are represented by one list each.
NpArrays(S) ==
    [dtype : {"float64"}, data : SeqsUpTo(S, MaxLen)]
        \cup [dtype : {"object", "string"}, data : {<<1>>}]

\* ------------------------------------------------------ pure functions
imagesuffix == "pickle"

\* int(math.log10(x)) for a weight x >= 1
RECURSIVE Log10Int(_)
Log10Int(x) == IF x < 10 THEN 0 ELSE 1 + Log10Int(x \div 10)

\* 'L1_{0}_Ltsv_{1}.{2}'.format(int(math.log10(L1)), int(math.log10(Ltsv)), suffix)
ImageName(L1, Ltsv) ==
    "L1_" \o ToString(Log10Int(L1)) \o "_Ltsv_" \o ToString(Log10Int(Ltsv))
        \o "." \o imagesuffix

\* imageprefix + '.' + self.imagesuffix
BestImageName(imageprefix) == imageprefix \o "." \o imagesuffix

\* numpy.argsort: the positions of a list in ascending order of value
\* (insertion sort, which numpy uses for short arrays: equal values keep
\* their input order).
RECURSIVE InsertIndex(_, _, _)
InsertIndex(idx, s, p) ==
    IF idx = <<>> THEN <<p>>
    ELSE IF s[idx[Len(idx)]] <= s[p] THEN Append(idx, p)
    ELSE Append(InsertIndex(SubSeq(idx, 1, Len(idx) - 1), s, p), idx[Len(idx)])

RECURSIVE ArgSortUpTo(_, _)
ArgSortUpTo(s, n) ==
    IF n = 0 THEN <<>> ELSE InsertIndex(ArgSortUpTo(s, n - 1), s, n)

\* (mutant) the candidates are swept in input order, as by enumerate(list)
ArgSortInputOrder(s) == [k \in 1..Len(s) |-> k]

ArgSort(s) == ArgSortUpTo(s, Len(s))

\* np_list[sort_index]
Take(s, idx) == [k \in 1..Len(idx) |-> s[idx[k]]]

\* comparison of two mean square errors <<sum, count>> (count > 0)
MseLess(a, b) == a[1] * b[2] < b[1] * a[2]

\* numpy.argmin: the first position holding the minimum
ArgMin(mse) ==
    CHOOSE k \in 1..Len(mse) :
        /\ \A m \in 1..Len(mse) : ~MseLess(mse[m], mse[k])
        /\ \A m \in 1..(k - 1) : MseLess(mse[k], mse[m])

\* the value computegridmse returns when cross validation is disabled
Sentinel == <<-1, 1>>

\* --------------------------------------------------------------- state
VARIABLES
    pc,                \* position of the caller / of cvforgridvis
    err,               \* exception that ended the call ("" if none)
    griddedvis,        \* self.griddedvis: "None" or "GriddedVisibilityStorage"
    imagearray,        \* self.imagearray: <<>> (None) or <<L1, Ltsv>> of the reconstruction
    visset,            \* self.visset: 0 (None) or the generator's num_fold
    storage,           \* image files: name -> image
    args,              \* arguments of the running cvforgridvis call
    f,                 \* target of the data file handle, "closed" when closed
    cvresult,          \* lines of the file 'cvresult.dat' (<<>> if absent)
    j, i,              \* loop positions in sorted_ltsv_list / sorted_l1_list
    overwrite_initial,
    result_L1, result_Ltsv, result_mse, result_image,
    fold,              \* computegridmse: subset_id of the running fold
    evaluator,         \* MeanSquareErrorEvaluator: [sum, count]
    subset,            \* the subset held by the with-block: 0 none, fold + 1
    best_solution,     \* 0 before selection
    removed,           \* position in result_image of the cleanup loop
    ret,               \* returned dictionary (empty before return)
    count,             \* number of calls made so far, per operation
    lastsolve,         \* arguments of the last call of solver.solve
    fold_imagearray,   \* computegridmse: its local imagearray, <<>> outside
    lasteval,          \* arguments of the last evaluate_and_accumulate
    call,              \* the user's call of exportimage / getimage
    initialimage,      \* the initial image the solver keeps for its next run
    report,            \* what the search printed about its result
    uvgridconfig       \* self.uvgridconfig: NoConfig (None) or a UVGridConfig

vars == <<pc, err, griddedvis, imagearray, visset, storage, args, f, cvresult,
          j, i, overwrite_initial, result_L1, result_Ltsv, result_mse,
          result_image, fold, evaluator, subset, best_solution, removed, ret, count, lastsolve,
          fold_imagearray, lasteval, call, initialimage, report,
          uvgridconfig>>

NoVisset == 0
NoFiles == [n \in {} |-> <<>>]
NoDict == [k \in {} |-> 0]
Operations == {"mfista", "fold_mfista", "exportimage", "generate_subset",
               "release_subset", "evaluate", "get_mean_mse", "argmin", "copy",
               "remove"}
NoCalls == [op \in Operations |-> 0]
NoSolve == [data |-> "None", store |-> FALSE, overwrite |-> FALSE, ok |-> TRUE]
NoEval == [cache |-> 0, image |-> <<>>]
NoCall == [op |-> "", imagename |-> "", overwrite |-> FALSE, data |-> <<>>]
NoConfig == [type |-> "NoneType", id |-> 0]
NoArgs == [l1_list |-> [dtype |-> "float64", data |-> <<>>],
           ltsv_list |-> [dtype |-> "float64", data |-> <<>>],
           num_fold |-> 1, imageprefix |-> "image", imagepolicy |-> "full",
           datafile |-> "None"]

Init ==
    /\ pc = "idle"
    /\ err = ""
    /\ griddedvis = "None"
    /\ imagearray = <<>>
    /\ visset = NoVisset
    /\ storage = NoFiles
    /\ args = NoArgs
    /\ f = "closed"
    /\ cvresult = <<>>
    /\ j = 0
    /\ i = 0
    /\ overwrite_initial = FALSE
    /\ result_L1 = <<>>
    /\ result_Ltsv = <<>>
    /\ result_mse = <<>>
    /\ result_image = <<>>
    /\ fold = 0
    /\ evaluator = [sum |-> 0, count |-> 0]
    /\ subset = 0
    /\ best_solution = 0
    /\ removed = 0
    /\ ret = NoDict
    /\ count = NoCalls
    /\ lastsolve = NoSolve
    /\ fold_imagearray = <<>>
    /\ lasteval = NoEval
    /\ call = NoCall
    /\ initialimage = <<>>
    /\ report = ""
    /\ uvgridconfig = NoConfig

\* ------------------------------------------------------ locals of a call
np_l1_list == args.l1_list
np_ltsv_list == args.ltsv_list
num_L1 == Len(np_l1_list.data)
num_Ltsv == Len(np_ltsv_list.data)
L1_sort_index == ArgSort(np_l1_list.data)
Ltsv_sort_index == ArgSort(np_ltsv_list.data)
sorted_l1_list == Take(np_l1_list.data, L1_sort_index)
sorted_ltsv_list == Take(np_ltsv_list.data, Ltsv_sort_index)
L1 == sorted_l1_list[i]
Ltsv == sorted_ltsv_list[j]
imagename == ImageName(L1, Ltsv)

\* one more call of an operation
Called(op) == [count EXCEPT ![op] = @ + 1]

\* solver.solve(data, storeinitialimage, overwriteinitialimage) and whether
\* it returned (ok) or raised
Solve(data, store, overwrite, ok) ==
    [data |-> data, store |-> store, overwrite |-> overwrite, ok |-> ok]

Raise(e) == pc' = "raised" /\ err' = e

\* ------------------------------------------------------------- setters
\* griddedvis.setter
SetGriddedvis(value) ==
    /\ pc = "idle"
    /\ IF value = "None" \/ value = "GriddedVisibilityStorage"
       THEN griddedvis' = value /\ err' = ""
       ELSE griddedvis' = griddedvis /\ err' = "TypeError"
    /\ UNCHANGED <<pc, imagearray, visset, storage, args, f, cvresult, j, i,
                   overwrite_initial, result_L1, result_Ltsv, result_mse,
                   result_image, fold, evaluator, subset, best_solution,
                   removed, ret, count, lastsolve,
                   fold_imagearray, lasteval, call,
                   initialimage, report, uvgridconfig>>

\* the values the setters are tried with: None, an instance of the expected
\* type, an instance of a subclass of it, and an instance of another type
GriddedvisValues == {"None", "GriddedVisibilityStorage",
                     "GriddedVisibilityStorageSubclass", "ndarray"}
Images == {<<l1, ltsv>> : l1 \in {v \in L1Values : v > 0},
                          ltsv \in {v \in LtsvValues : v > 0}}
ImagearrayValues ==
    {[type |-> "NoneType", image |-> <<>>]} \cup
    [type : {"ResultingImageStorage", "ResultingImageStorageSubclass", "ndarray"},
     image : Images]
UVGridConfigIds == {1, 2, 3}
UvgridconfigValues ==
    {NoConfig} \cup
    [type : {"UVGridConfig", "UVGridConfigSubclass", "dict"}, id : UVGridConfigIds]

\* (mutant) isinstance(value, ResultingImageStorage) in place of type(value) ==
SetImagearrayIsInstance(value) ==
    /\ pc = "idle"
    /\ IF value.type = "NoneType"
       THEN imagearray' = <<>> /\ err' = ""
       ELSE IF value.type \in {"ResultingImageStorage",
                               "ResultingImageStorageSubclass"}
       THEN imagearray' = value.image /\ err' = ""
       ELSE imagearray' = imagearray /\ err' = "TypeError"
    /\ UNCHANGED <<pc, griddedvis, visset, storage, args, f, cvresult, j, i,
                   overwrite_initial, result_L1, result_Ltsv, result_mse,
                   result_image, fold, evaluator, subset, best_solution,
                   removed, ret, count, lastsolve, fold_imagearray, lasteval,
                   call, initialimage, report, uvgridconfig>>

\* imagearray.setter
SetImagearray(value) ==
    /\ pc = "idle"
    /\ IF value.type = "NoneType"
       THEN imagearray' = <<>> /\ err' = ""
       ELSE IF value.type = "ResultingImageStorage"
       THEN imagearray' = value.image /\ err' = ""
       ELSE imagearray' = imagearray /\ err' = "TypeError"
    /\ UNCHANGED <<pc, griddedvis, visset, storage, args, f, cvresult, j, i,
                   overwrite_initial, result_L1, result_Ltsv, result_mse,
                   result_image, fold, evaluator, subset, best_solution,
                   removed, ret, count, lastsolve, fold_imagearray, lasteval,
                   call, initialimage, report, uvgridconfig>>

\* uvgridconfig.setter
SetUvgridconfig(value) ==
    /\ pc = "idle"
    /\ IF value.type = "NoneType"
       THEN uvgridconfig' = NoConfig /\ err' = ""
       ELSE IF value.type = "UVGridConfig"
       THEN uvgridconfig' = value /\ err' = ""
       ELSE uvgridconfig' = uvgridconfig /\ err' = "TypeError"
    /\ UNCHANGED <<pc, griddedvis, imagearray, visset, storage, args, f,
                   cvresult, j, i, overwrite_initial, result_L1, result_Ltsv,
                   result_mse, result_image, fold, evaluator, subset,
                   best_solution, removed, ret, count, lastsolve,
                   fold_imagearray, lasteval, call, initialimage, report>>

\* ------------------------------------------------ initializecv / finalizecv
\* the state change of initializecv(num_fold), given griddedvis is set
InitializedVisset(num_fold) == IF visset = NoVisset THEN num_fold ELSE visset

\* initializecv called by the user
InitializeCV(num_fold) ==
    /\ pc = "idle"
    /\ IF griddedvis = "None"
       THEN err' = "AssertionError" /\ visset' = visset
       ELSE err' = "" /\ visset' = InitializedVisset(num_fold)
    /\ UNCHANGED <<pc, griddedvis, imagearray, storage, args, f, cvresult, j, i,
                   overwrite_initial, result_L1, result_Ltsv, result_mse,
                   result_image, fold, evaluator, subset, best_solution,
                   removed, ret, count, lastsolve,
                   fold_imagearray, lasteval, call,
                   initialimage, report, uvgridconfig>>

\* finalizecv called by the user
FinalizeCV ==
    /\ pc = "idle"
    /\ visset # NoVisset
    /\ visset' = NoVisset
    /\ err' = ""
    /\ UNCHANGED <<pc, griddedvis, imagearray, storage, args, f, cvresult, j, i,
                   overwrite_initial, result_L1, result_Ltsv, result_mse,
                   result_image, fold, evaluator, subset, best_solution,
                   removed, ret, count, lastsolve,
                   fold_imagearray, lasteval, call,
                   initialimage, report, uvgridconfig>>

\* -------------------------------------------------------- cvforgridvis
\* the sanity checks: the exception they raise, "" if they pass.
\* ArgumentError is not defined in the module: raising it is a NameError.
SanityError(a, summarize) ==
    IF a.imagepolicy \notin {"best", "full"} THEN "NameError"
    ELSE IF a.l1_list.dtype = "object" THEN "NameError"
    ELSE IF a.ltsv_list.dtype = "object" THEN "NameError"
    ELSE IF summarize /\ (Len(a.l1_list.data) = 0 \/ Len(a.ltsv_list.data) = 0)
         THEN "ZeroDivisionError"
    ELSE ""

\* cvforgridvis up to the start of the sweep: sanity checks, sorting,
\* the plotter, the data file and initializecv.  summarize only chooses the
\* plotter: CVPlotter divides by the number of candidates of each list.
CvforgridvisEnter(a, summarize) ==
    /\ pc = "idle"
    /\ args' = a
    /\ IF SanityError(a, summarize) # ""
       THEN /\ Raise(SanityError(a, summarize))
            /\ UNCHANGED <<f, cvresult, visset, j>>
       ELSE /\ f' = IF a.datafile # "None" THEN "cvresult.dat" ELSE "devnull"
            /\ cvresult' = IF a.datafile # "None" THEN <<"# L1, Ltsv, MSE">>
                           ELSE cvresult
            /\ IF griddedvis = "None"
               THEN Raise("AssertionError") /\ UNCHANGED <<visset, j>>
               ELSE /\ visset' = InitializedVisset(a.num_fold)
                    /\ j' = 1
                    /\ pc' = "outer"
                    /\ err' = ""
    /\ UNCHANGED <<griddedvis, imagearray, storage, i, overwrite_initial,
                   result_L1, result_Ltsv, result_mse, result_image, fold,
                   evaluator, subset, best_solution, removed, ret, count, lastsolve,
                   fold_imagearray, lasteval, call,
                   initialimage, report, uvgridconfig>>

\* for j in xrange(num_Ltsv)
OuterLoop ==
    /\ pc = "outer"
    /\ IF j <= num_Ltsv
       THEN /\ overwrite_initial' = TRUE
            /\ i' = num_L1
            /\ pc' = "inner"
       ELSE /\ pc' = "finalize"
            /\ UNCHANGED <<overwrite_initial, i>>
    /\ UNCHANGED <<err, griddedvis, imagearray, visset, storage, args, f,
                   cvresult, j, result_L1, result_Ltsv, result_mse,
                   result_image, fold, evaluator, subset, best_solution,
                   removed, ret, count, lastsolve,
                   fold_imagearray, lasteval, call,
                   initialimage, report, uvgridconfig>>

\* the exception raised while the image name is formatted, "" if none:
\* math.log10 of a string is a TypeError, of a number <= 0 a ValueError.
ImageNameError ==
    IF np_l1_list.dtype = "string" THEN "TypeError"
    ELSE IF L1 <= 0 THEN "ValueError"
    ELSE IF np_ltsv_list.dtype = "string" THEN "TypeError"
    ELSE IF Ltsv <= 0 THEN "ValueError"
    ELSE ""

\* for i in xrange(num_L1 - 1, -1, -1): the head of a trial
InnerLoop ==
    /\ pc = "inner"
    /\ IF i >= 1
       THEN /\ result_L1' = Append(result_L1, L1)
            /\ result_Ltsv' = Append(result_Ltsv, Ltsv)
            /\ IF ImageNameError # ""
               THEN Raise(ImageNameError)
               ELSE pc' = "mfista" /\ err' = err
            /\ j' = j
       ELSE /\ j' = j + 1
            /\ pc' = "outer"
            /\ UNCHANGED <<err, result_L1, result_Ltsv>>
    /\ UNCHANGED <<griddedvis, imagearray, visset, storage, args, f, cvresult,
                   i, overwrite_initial, result_mse, result_image, fold,
                   evaluator, subset, best_solution, removed, ret, count, lastsolve,
                   fold_imagearray, lasteval, call,
                   initialimage, report, uvgridconfig>>

\* solver.solve(data, storeinitialimage, overwriteinitialimage): the initial
\* image the solver keeps for its next run, given the one it kept (stored)
\* and the image of this run.  storeinitialimage: "keep the result as an
\* initial image for next run"; overwriteinitialimage: "overwrite existing
\* initial image".
StoredInitialImage(stored, image, store, overwrite) ==
    IF store /\ (overwrite \/ stored = <<>>) THEN image ELSE stored

\* (mutant) the folds of a trial are evaluated without exporting its image
MfistaSkipsExport(ok) ==
    /\ pc = "mfista"
    /\ count' = Called("mfista")
    /\ lastsolve' = Solve("griddedvis", TRUE, overwrite_initial, ok)
    /\ initialimage' = IF ok THEN StoredInitialImage(initialimage, <<L1, Ltsv>>,
                                                  TRUE, overwrite_initial)
                       ELSE initialimage
    /\ IF ok
       THEN /\ imagearray' = <<L1, Ltsv>>
            /\ pc' = "computegridmse"
            /\ err' = err
       ELSE /\ Raise("SolverError")
            /\ imagearray' = imagearray
    /\ UNCHANGED <<griddedvis, visset, storage, args, f, cvresult, j, i,
                   overwrite_initial, result_L1, result_Ltsv, result_mse,
                   result_image, fold, evaluator, subset, best_solution,
                   removed, ret,
                   fold_imagearray, lasteval, call,
                   report, uvgridconfig>>

\* self.mfista(L1, Ltsv, ..., storeinitialimage=True,
\*             overwriteinitialimage=overwrite_initial)
Mfista(ok) ==
    /\ pc = "mfista"
    /\ count' = Called("mfista")
    /\ lastsolve' = Solve("griddedvis", TRUE, overwrite_initial, ok)
    /\ initialimage' = IF ok THEN StoredInitialImage(initialimage, <<L1, Ltsv>>,
                                                  TRUE, overwrite_initial)
                       ELSE initialimage
    /\ IF ok
       THEN /\ imagearray' = <<L1, Ltsv>>
            /\ pc' = "exportimage"
            /\ err' = err
       ELSE /\ Raise("SolverError")
            /\ imagearray' = imagearray
    /\ UNCHANGED <<griddedvis, visset, storage, args, f, cvresult, j, i,
                   overwrite_initial, result_L1, result_Ltsv, result_mse,
                   result_image, fold, evaluator, subset, best_solution,
                   removed, ret,
                   fold_imagearray, lasteval, call,
                   report, uvgridconfig>>

\* exportimage(imagename, overwrite): the files after the call
ExportImage(files, name, image) == (name :> image) @@ files

\* self.exportimage(imagename, overwrite=True); result_image.append(imagename)
Export ==
    /\ pc = "exportimage"
    /\ IF imagearray = <<>>
       THEN /\ Raise("RuntimeError")
            /\ UNCHANGED <<storage, result_image, count>>
       ELSE /\ storage' = ExportImage(storage, imagename, imagearray)
            /\ result_image' = Append(result_image, imagename)
            /\ count' = Called("exportimage")
            /\ pc' = "computegridmse"
            /\ err' = err
    /\ UNCHANGED <<griddedvis, imagearray, visset, args, f, cvresult, j, i,
                   overwrite_initial, result_L1, result_Ltsv, result_mse,
                   fold, evaluator, subset, best_solution, removed, ret,
                   lastsolve,
                   fold_imagearray, lasteval, call,
                   initialimage, report, uvgridconfig>>

\* '{0}, {1}, {2}'.format(L1, Ltsv, mse)
DataLine(l1, ltsv, mse) ==
    ToString(l1) \o ", " \o ToString(ltsv) \o ", "
        \o ToString(mse[1]) \o "/" \o ToString(mse[2])

\* (mutant) the MSE of a trial is put in front of result_mse
EndTrialPrepends(mse) ==
    /\ result_mse' = <<mse>> \o result_mse
    /\ cvresult' = IF f = "cvresult.dat"
                   THEN Append(cvresult, DataLine(L1, Ltsv, mse))
                   ELSE cvresult
    /\ i' = i - 1
    /\ pc' = "inner"

\* the rest of a trial once computegridmse has returned mse: the line of the
\* data file and the step of the inner loop.  (With summarize the image just
\* exported is read back and plotted, which changes nothing held here.)
EndTrial(mse) ==
    /\ result_mse' = Append(result_mse, mse)
    /\ cvresult' = IF f = "cvresult.dat"
                   THEN Append(cvresult, DataLine(L1, Ltsv, mse))
                   ELSE cvresult
    /\ i' = i - 1
    /\ pc' = "inner"

\* (mutant) if num_fold < 1
CvDisabledBelowOne(num_fold) == num_fold < 1

\* if num_fold <= 1: CV is disabled
CvDisabled(num_fold) == num_fold <= 1

\* (mutant) one evaluator shared by all trials: it is not created anew
ComputeGridMseSharedEvaluator ==
    /\ pc = "computegridmse"
    /\ evaluator' = evaluator
    /\ lasteval' = NoEval
    /\ fold_imagearray' = <<>>
    /\ IF CvDisabled(visset)
       THEN EndTrial(Sentinel) /\ fold' = fold
       ELSE /\ fold' = 0
            /\ pc' = "generate_subset"
            /\ UNCHANGED <<result_mse, cvresult, i>>
    /\ UNCHANGED <<err, griddedvis, imagearray, visset, storage, args, f, j,
                   overwrite_initial, result_L1, result_Ltsv, result_image,
                   subset, best_solution, removed, ret, count, lastsolve, call,
                   initialimage, report, uvgridconfig>>

\* computegridmse up to the fold loop
ComputeGridMse ==
    /\ pc = "computegridmse"
    /\ evaluator' = [sum |-> 0, count |-> 0]
    /\ lasteval' = NoEval
    /\ fold_imagearray' = <<>>
    /\ IF CvDisabled(visset)
       THEN EndTrial(Sentinel) /\ fold' = fold
       ELSE /\ fold' = 0
            /\ pc' = "generate_subset"
            /\ UNCHANGED <<result_mse, cvresult, i>>
    /\ UNCHANGED <<err, griddedvis, imagearray, visset, storage, args, f, j,
                   overwrite_initial, result_L1, result_Ltsv, result_image,
                   subset, best_solution, removed, ret, count, lastsolve, call,
                   initialimage, report, uvgridconfig>>

\* with subset_handler.generate_subset(subset_id=i) as subset
GenerateSubset ==
    /\ pc = "generate_subset"
    /\ subset' = fold + 1
    /\ count' = Called("generate_subset")
    /\ pc' = "fold_mfista"
    /\ UNCHANGED <<err, griddedvis, imagearray, visset, storage, args, f,
                   cvresult, j, i, overwrite_initial, result_L1, result_Ltsv,
                   result_mse, result_image, fold, evaluator, best_solution,
                   removed, ret, lastsolve, fold_imagearray, lasteval, call,
                   initialimage, report, uvgridconfig>>

\* the exit of the with-block, reached when the block ends and when it
\* raises: the handler releases the subset
ExitSubset(s) == 0

\* the image the solver reconstructs from the active part of subset s
FoldImage(l1, ltsv, s) == <<l1, ltsv, s>>

\* (mutant) a fold whose solver call fails is skipped and the loop goes on
FoldMfistaSkipsFailure(ok) ==
    /\ pc = "fold_mfista"
    /\ lastsolve' = Solve("visibility_active", FALSE, FALSE, ok)
    /\ initialimage' = IF ok THEN StoredInitialImage(initialimage,
                                FoldImage(L1, Ltsv, subset), FALSE, FALSE)
                       ELSE initialimage
    /\ count' = Called("fold_mfista")
    /\ fold_imagearray' = IF ok THEN FoldImage(L1, Ltsv, subset)
                          ELSE fold_imagearray
    /\ pc' = IF ok THEN "evaluate" ELSE "release"
    /\ UNCHANGED <<err, subset, griddedvis, imagearray, visset, storage, args,
                   f, cvresult, j, i, overwrite_initial, result_L1,
                   result_Ltsv, result_mse, result_image, fold, evaluator,
                   best_solution, removed, ret, lasteval, call,
                   report, uvgridconfig>>

\* (mutant) a failure of the solver leaves the with-block without its exit
FoldMfistaLeaksSubset(ok) ==
    /\ pc = "fold_mfista"
    /\ lastsolve' = Solve("visibility_active", FALSE, FALSE, ok)
    /\ initialimage' = IF ok THEN StoredInitialImage(initialimage,
                                FoldImage(L1, Ltsv, subset), FALSE, FALSE)
                       ELSE initialimage
    /\ count' = Called("fold_mfista")
    /\ IF ok
       THEN /\ fold_imagearray' = FoldImage(L1, Ltsv, subset)
            /\ pc' = "evaluate"
            /\ err' = err
       ELSE /\ fold_imagearray' = <<>>
            /\ Raise("SolverError")
    /\ UNCHANGED <<subset, griddedvis, imagearray, visset, storage, args, f,
                   cvresult, j, i, overwrite_initial, result_L1, result_Ltsv,
                   result_mse, result_image, fold, evaluator, best_solution,
                   removed, ret, lasteval, call,
                   report, uvgridconfig>>

\* (mutant) the solver is given the held-out part of the subset
FoldMfistaOnHeldOut(ok) ==
    /\ pc = "fold_mfista"
    /\ lastsolve' = Solve("visibility_cache", FALSE, FALSE, ok)
    /\ initialimage' = IF ok THEN StoredInitialImage(initialimage,
                                FoldImage(L1, Ltsv, subset), FALSE, FALSE)
                       ELSE initialimage
    /\ IF ok
       THEN /\ count' = Called("fold_mfista")
            /\ fold_imagearray' = FoldImage(L1, Ltsv, subset)
            /\ pc' = "evaluate"
            /\ UNCHANGED <<err, subset>>
       ELSE /\ count' = [count EXCEPT !["fold_mfista"] = @ + 1,
                                       !["release_subset"] = @ + 1]
            /\ fold_imagearray' = <<>>
            /\ subset' = ExitSubset(subset)
            /\ Raise("SolverError")
    /\ UNCHANGED <<griddedvis, imagearray, visset, storage, args, f, cvresult,
                   j, i, overwrite_initial, result_L1, result_Ltsv, result_mse,
                   result_image, fold, evaluator, best_solution, removed, ret,
                   lasteval, call,
                   report, uvgridconfig>>

\* (mutant) the solver call of a fold stores its image as the initial image
FoldMfistaStoresImage(ok) ==
    /\ pc = "fold_mfista"
    /\ lastsolve' = Solve("visibility_active", TRUE, TRUE, ok)
    /\ initialimage' = IF ok THEN StoredInitialImage(initialimage,
                                FoldImage(L1, Ltsv, subset), TRUE, TRUE)
                       ELSE initialimage
    /\ IF ok
       THEN /\ count' = Called("fold_mfista")
            /\ fold_imagearray' = FoldImage(L1, Ltsv, subset)
            /\ pc' = "evaluate"
            /\ UNCHANGED <<err, subset>>
       ELSE /\ count' = [count EXCEPT !["fold_mfista"] = @ + 1,
                                       !["release_subset"] = @ + 1]
            /\ fold_imagearray' = <<>>
            /\ subset' = ExitSubset(subset)
            /\ Raise("SolverError")
    /\ UNCHANGED <<griddedvis, imagearray, visset, storage, args, f, cvresult,
                   j, i, overwrite_initial, result_L1, result_Ltsv, result_mse,
                   result_image, fold, evaluator, best_solution, removed, ret,
                   lasteval, call,
                   report, uvgridconfig>>

\* imagearray = self._mfista(mfistaparam, subset.visibility_active, False, False)
FoldMfista(ok) ==
    /\ pc = "fold_mfista"
    /\ lastsolve' = Solve("visibility_active", FALSE, FALSE, ok)
    /\ initialimage' = IF ok THEN StoredInitialImage(initialimage,
                                FoldImage(L1, Ltsv, subset), FALSE, FALSE)
                       ELSE initialimage
    /\ IF ok
       THEN /\ count' = Called("fold_mfista")
            /\ fold_imagearray' = FoldImage(L1, Ltsv, subset)
            /\ pc' = "evaluate"
            /\ UNCHANGED <<err, subset>>
       ELSE /\ count' = [count EXCEPT !["fold_mfista"] = @ + 1,
                                       !["release_subset"] = @ + 1]
            /\ fold_imagearray' = <<>>
            /\ subset' = ExitSubset(subset)
            /\ Raise("SolverError")
    /\ UNCHANGED <<griddedvis, imagearray, visset, storage, args, f, cvresult,
                   j, i, overwrite_initial, result_L1, result_Ltsv, result_mse,
                   result_image, fold, evaluator, best_solution, removed, ret,
                   lasteval, call,
                   report, uvgridconfig>>

\* MeanSquareErrorEvaluator.evaluate_and_accumulate
Accumulate(ev, mse) == [sum |-> ev.sum + mse, count |-> ev.count + 1]

\* MeanSquareErrorEvaluator.get_mean_mse
MeanMse(ev) == <<ev.sum, ev.count>>

\* the arguments of evaluator.evaluate_and_accumulate(subset.visibility_cache,
\*                                                    imagearray, ...)
EvalArgs == [cache |-> subset, image |-> fold_imagearray]

\* evaluator.evaluate_and_accumulate(subset.visibility_cache, imagearray, ...)
Evaluate(mse) ==
    /\ pc = "evaluate"
    /\ lasteval' = EvalArgs
    /\ evaluator' = Accumulate(evaluator, mse)
    /\ count' = Called("evaluate")
    /\ pc' = "release"
    /\ UNCHANGED <<err, griddedvis, imagearray, visset, storage, args, f,
                   cvresult, j, i, overwrite_initial, result_L1, result_Ltsv,
                   result_mse, result_image, fold, subset, best_solution,
                   removed, ret, lastsolve, fold_imagearray, call,
                   initialimage, report, uvgridconfig>>

\* evaluate_and_accumulate raises: the with-block is left through its exit
\* and the exception leaves computegridmse and cvforgridvis
EvaluateFails ==
    /\ pc = "evaluate"
    /\ lasteval' = EvalArgs
    /\ count' = [count EXCEPT !["evaluate"] = @ + 1,
                               !["release_subset"] = @ + 1]
    /\ subset' = ExitSubset(subset)
    /\ fold_imagearray' = <<>>
    /\ Raise("EvaluatorError")
    /\ UNCHANGED <<griddedvis, imagearray, visset, storage, args, f, cvresult,
                   j, i, overwrite_initial, result_L1, result_Ltsv, result_mse,
                   result_image, fold, evaluator, best_solution, removed, ret,
                   lastsolve, call,
                   initialimage, report, uvgridconfig>>

\* the end of the with-block and the step of for i in xrange(num_fold)
ReleaseSubset ==
    /\ pc = "release"
    /\ subset' = ExitSubset(subset)
    /\ count' = Called("release_subset")
    /\ IF fold + 1 < visset
       THEN fold' = fold + 1 /\ pc' = "generate_subset"
       ELSE fold' = fold /\ pc' = "get_mean_mse"
    /\ UNCHANGED <<err, griddedvis, imagearray, visset, storage, args, f,
                   cvresult, j, i, overwrite_initial, result_L1, result_Ltsv,
                   result_mse, result_image, evaluator, best_solution,
                   removed, ret, lastsolve, fold_imagearray, lasteval, call,
                   initialimage, report, uvgridconfig>>

\* mean_mse = evaluator.get_mean_mse(); return mean_mse
GetMeanMse ==
    /\ pc = "get_mean_mse"
    /\ count' = Called("get_mean_mse")
    /\ fold_imagearray' = <<>>
    /\ EndTrial(MeanMse(evaluator))
    /\ UNCHANGED <<err, griddedvis, imagearray, visset, storage, args, f, j,
                   overwrite_initial, result_L1, result_Ltsv, result_image,
                   fold, evaluator, subset, best_solution, removed, ret,
                   lastsolve, lasteval, call,
                   initialimage, report, uvgridconfig>>

\* self.finalizecv(); f.close()
Finalize ==
    /\ pc = "finalize"
    /\ visset' = NoVisset
    /\ f' = "closed"
    /\ pc' = "select"
    /\ UNCHANGED <<err, griddedvis, imagearray, storage, args, cvresult, j, i,
                   overwrite_initial, result_L1, result_Ltsv, result_mse,
                   result_image, fold, evaluator, subset, best_solution,
                   removed, ret, count, lastsolve,
                   fold_imagearray, lasteval, call,
                   initialimage, report, uvgridconfig>>

\* (mutant) numpy.argmax in place of numpy.argmin
BestSolutionArgMax(mse) ==
    CHOOSE k \in 1..Len(mse) :
        /\ \A m \in 1..Len(mse) : ~MseLess(mse[k], mse[m])
        /\ \A m \in 1..(k - 1) : MseLess(mse[m], mse[k])

\* (mutant) the last position holding the minimum
BestSolutionLast(mse) ==
    CHOOSE k \in 1..Len(mse) :
        /\ \A m \in 1..Len(mse) : ~MseLess(mse[m], mse[k])
        /\ \A m \in (k + 1)..Len(mse) : MseLess(mse[k], mse[m])

\* best_solution = numpy.argmin(result_mse)
BestSolution(mse) == ArgMin(mse)

\* (mutant) if best_mse > 0.0
CvPerformedStrict(mse) == mse[1] > 0

\* if best_mse >= 0.0
CvPerformed(mse) == mse[1] >= 0

\* what the search prints about its result
Report(mse) ==
    IF CvPerformed(mse) THEN "Optimal result is as follows"
    ELSE "Cross-validation was not performed."

\* the selection of the best trial and the report on it; argmin of an empty
\* list is a ValueError
Select ==
    /\ pc = "select"
    /\ IF result_mse = <<>>
       THEN Raise("ValueError") /\ UNCHANGED <<best_solution, count, report>>
       ELSE /\ best_solution' = BestSolution(result_mse)
            /\ report' = Report(result_mse[BestSolution(result_mse)])
            /\ count' = Called("argmin")
            /\ pc' = "copy"
            /\ err' = err
    /\ UNCHANGED <<griddedvis, imagearray, visset, storage, args, f, cvresult,
                   j, i, overwrite_initial, result_L1, result_Ltsv, result_mse,
                   result_image, fold, evaluator, subset, removed, ret,
                   lastsolve,
                   fold_imagearray, lasteval, call,
                   initialimage, uvgridconfig>>

\* the lines of the data file of a given name: open('cvresult.dat', 'w') is
\* the only data file the search writes
DataFile(name) == IF name = "cvresult.dat" THEN cvresult ELSE <<>>

best_mse == result_mse[best_solution]
best_image == result_image[best_solution]
best_L1 == result_L1[best_solution]
best_Ltsv == result_Ltsv[best_solution]

\* the exception shutil.copy2(src, dst) raises, "" if none
CopyError(files, src, dst) ==
    IF src \notin DOMAIN files THEN "IOError"
    ELSE IF src = dst THEN "Error"
    ELSE ""

\* (mutant) the intermediate images are removed before the best one is copied
CopyBestSkipped ==
    /\ pc = "copy"
    /\ removed' = 0
    /\ pc' = IF args.imagepolicy = "best" THEN "remove" ELSE "return"
    /\ UNCHANGED <<err, storage, count, griddedvis, imagearray, visset, args,
                   f, cvresult, j, i, overwrite_initial, result_L1,
                   result_Ltsv, result_mse, result_image, fold, evaluator,
                   subset, best_solution, ret, lastsolve,
                   fold_imagearray, lasteval, call,
                   initialimage, report, uvgridconfig>>

\* shutil.copy2(best_image, imageprefix + '.' + self.imagesuffix)
CopyBest ==
    /\ pc = "copy"
    /\ LET dst == BestImageName(args.imageprefix)
       IN  IF CopyError(storage, best_image, dst) # ""
           THEN /\ Raise(CopyError(storage, best_image, dst))
                /\ UNCHANGED <<storage, count, removed>>
           ELSE /\ storage' = (dst :> storage[best_image]) @@ storage
                /\ count' = Called("copy")
                /\ removed' = 0
                /\ pc' = IF args.imagepolicy = "best" THEN "remove" ELSE "return"
                /\ err' = err
    /\ UNCHANGED <<griddedvis, imagearray, visset, args, f, cvresult, j, i,
                   overwrite_initial, result_L1, result_Ltsv, result_mse,
                   result_image, fold, evaluator, subset, best_solution, ret,
                   lastsolve,
                   fold_imagearray, lasteval, call,
                   initialimage, report, uvgridconfig>>

\* os.remove(name): the files after the call
RemoveFile(files, name) == [n \in DOMAIN files \ {name} |-> files[n]]

\* for imagename in result_image: os.remove(imagename)
Remove ==
    /\ pc = "remove"
    /\ IF removed < Len(result_image)
       THEN LET name == result_image[removed + 1]
            IN  IF name \notin DOMAIN storage
                THEN /\ Raise("OSError")
                     /\ UNCHANGED <<storage, count, removed>>
                ELSE /\ storage' = RemoveFile(storage, name)
                     /\ count' = Called("remove")
                     /\ removed' = removed + 1
                     /\ UNCHANGED <<pc, err>>
       ELSE /\ pc' = "return"
            /\ UNCHANGED <<err, storage, count, removed>>
    /\ UNCHANGED <<griddedvis, imagearray, visset, args, f, cvresult, j, i,
                   overwrite_initial, result_L1, result_Ltsv, result_mse,
                   result_image, fold, evaluator, subset, best_solution, ret,
                   lastsolve,
                   fold_imagearray, lasteval, call,
                   initialimage, report, uvgridconfig>>

\* the dictionary returned by cvforgridvis
ResultRecord == [k \in {"L1", "Ltsv"} |-> IF k = "L1" THEN best_L1 ELSE best_Ltsv]

\* return {'L1': best_L1, 'Ltsv': best_Ltsv}
Return ==
    /\ pc = "return"
    /\ ret' = ResultRecord
    /\ pc' = "done"
    /\ UNCHANGED <<err, griddedvis, imagearray, visset, storage, args, f,
                   cvresult, j, i, overwrite_initial, result_L1, result_Ltsv,
                   result_mse, result_image, fold, evaluator, subset,
                   best_solution, removed, count, lastsolve,
                   fold_imagearray, lasteval, call,
                   initialimage, report, uvgridconfig>>

\* the image names the user's own calls of exportimage and getimage draw from
ImageNames == {"image.pickle", "L1_0_Ltsv_0.pickle", "new.pickle"}

\* (mutant) exportimage that does not look at the overwrite flag
ExportImageErrorIgnoresOverwrite(files, name, image, overwrite) ==
    IF image = <<>> THEN "RuntimeError" ELSE ""

\* the exception exportimage(imagename, overwrite) raises, "" if none
ExportImageError(files, name, image, overwrite) ==
    IF image = <<>> THEN "RuntimeError"
    ELSE IF name \in DOMAIN files /\ ~overwrite THEN "RuntimeError"
    ELSE ""

\* the exception getimage(imagename) raises, "" if none
GetImageError(files, name) ==
    IF name \notin DOMAIN files THEN "RuntimeError" ELSE ""

\* exportimage(name, overwrite) called by the user, before a search or after
\* one has returned; the caller is followed no further
ExportImageCall(name, overwrite) ==
    /\ pc \in {"idle", "done"}
    /\ call' = [op |-> "exportimage", imagename |-> name,
                overwrite |-> overwrite, data |-> <<>>]
    /\ err' = ExportImageError(storage, name, imagearray, overwrite)
    /\ storage' = IF ExportImageError(storage, name, imagearray, overwrite) = ""
                  THEN ExportImage(storage, name, imagearray)
                  ELSE storage
    /\ pc' = "called"
    /\ UNCHANGED <<griddedvis, imagearray, visset, args, f, cvresult, j, i,
                   overwrite_initial, result_L1, result_Ltsv, result_mse,
                   result_image, fold, evaluator, subset, best_solution,
                   removed, ret, count, lastsolve, fold_imagearray, lasteval,
                   initialimage, report, uvgridconfig>>

\* getimage(name) called by the user; data is the image it returns
GetImageCall(name) ==
    /\ pc \in {"idle", "done"}
    /\ call' = [op |-> "getimage", imagename |-> name, overwrite |-> FALSE,
                data |-> IF GetImageError(storage, name) = ""
                         THEN storage[name] ELSE <<>>]
    /\ err' = GetImageError(storage, name)
    /\ pc' = "called"
    /\ UNCHANGED <<griddedvis, imagearray, visset, storage, args, f, cvresult,
                   j, i, overwrite_initial, result_L1, result_Ltsv, result_mse,
                   result_image, fold, evaluator, subset, best_solution,
                   removed, ret, count, lastsolve, fold_imagearray, lasteval,
                   initialimage, report, uvgridconfig>>

CallArgs ==
    [l1_list : NpArrays(L1Values), ltsv_list : NpArrays(LtsvValues),
     num_fold : 1..MaxFold, imageprefix : ImagePrefixes,
     imagepolicy : ImagePolicies, datafile : DataFiles]

Next ==
    \/ \E value \in {"None", "GriddedVisibilityStorage", "ndarray"} :
          SetGriddedvis(value)
    \/ \E k \in 1..MaxFold : InitializeCV(k)
    \/ FinalizeCV
    \/ pc = "idle" /\ \E a \in CallArgs, summarize \in BOOLEAN :
                         CvforgridvisEnter(a, summarize)
    \/ OuterLoop
    \/ InnerLoop
    \/ \E ok \in BOOLEAN : Mfista(ok)
    \/ Export
    \/ ComputeGridMse
    \/ GenerateSubset
    \/ \E ok \in BOOLEAN : FoldMfista(ok)
    \/ \E mse \in FoldErrors : Evaluate(mse)
    \/ EvaluateFails
    \/ ReleaseSubset
    \/ GetMeanMse
    \/ Finalize
    \/ Select
    \/ CopyBest
    \/ Remove
    \/ Return
    \/ \E name \in ImageNames, overwrite \in BOOLEAN :
          ExportImageCall(name, overwrite)
    \/ \E name \in ImageNames : GetImageCall(name)

Spec == Init /\ [][Next]_vars

\* the attributes assigned by the user, in any order and any number of times
SetterNext ==
    \/ \E value \in GriddedvisValues : SetGriddedvis(value)
    \/ \E value \in ImagearrayValues : SetImagearray(value)
    \/ \E value \in UvgridconfigValues : SetUvgridconfig(value)

SetterSpec == Init /\ [][SetterNext]_vars

\* =================================================================
\* Properties
\* =================================================================
MseLeq(a, b) == a[1] * b[2] <= b[1] * a[2]
NumTrials == num_L1 * num_Ltsv
\* loop positions of the k-th trial of the sweep
TrialJ(k) == ((k - 1) \div num_L1) + 1
TrialI(k) == num_L1 - ((k - 1) % num_L1)
InTrial == pc \in {"mfista", "exportimage", "computegridmse", "generate_subset",
                   "fold_mfista", "evaluate", "release", "get_mean_mse"}
SweepFinished == pc \in {"finalize", "select", "copy", "remove", "return", "done"}
IsPermutation(idx, n) == Len(idx) = n /\ {idx[k] : k \in 1..n} = 1..n

\* C1: a completed search with cross validation (K > 1) returns the (L1, Ltsv)
\* of a trial whose mean MSE is less than or equal to the mean MSE of every
\* trial of the search.
C1_BestIsMinimum ==
    (pc = "done" /\ count["get_mean_mse"] > 0) =>
        \E k \in 1..Len(result_mse) :
            /\ ret["L1"] = result_L1[k]
            /\ ret["Ltsv"] = result_Ltsv[k]
            /\ \A m \in 1..Len(result_mse) : MseLeq(result_mse[k], result_mse[m])

\* a completed search of four trials whose second trial is strictly the best
C1_Witness ==
    /\ pc = "done"
    /\ count["get_mean_mse"] = 4
    /\ best_solution = 2
    /\ \A m \in {1, 3, 4} : ~MseLeq(result_mse[m], result_mse[2])
    /\ ret["L1"] = result_L1[2] /\ ret["Ltsv"] = result_Ltsv[2]

\* C2: the trials are visited with Ltsv ascending in the outer loop and L1
\* descending in the inner loop, whatever the input order, and every pair of
\* (L1 position, Ltsv position) is visited exactly once.
C2_SweepOrder ==
    /\ IsPermutation(L1_sort_index, num_L1)
    /\ IsPermutation(Ltsv_sort_index, num_Ltsv)
    /\ \A k \in 1..Len(result_L1) :
          /\ result_L1[k] = np_l1_list.data[L1_sort_index[TrialI(k)]]
          /\ result_Ltsv[k] = np_ltsv_list.data[Ltsv_sort_index[TrialJ(k)]]
    /\ \A k, m \in 1..Len(result_L1) :
          k < m => /\ result_Ltsv[k] <= result_Ltsv[m]
                   /\ TrialJ(k) = TrialJ(m) => result_L1[k] >= result_L1[m]
    /\ InTrial => /\ i \in 1..num_L1 /\ j \in 1..num_Ltsv
                  /\ Len(result_L1) = (j - 1) * num_L1 + (num_L1 - i) + 1
    /\ SweepFinished =>
          /\ Len(result_L1) = NumTrials
          /\ {<<L1_sort_index[TrialI(k)], Ltsv_sort_index[TrialJ(k)]>> :
                 k \in 1..NumTrials} = (1..num_L1) \X (1..num_Ltsv)

\* the sweep of l1_list [1, 10] and ltsv_list [10, 1], both given unsorted
C2_Witness ==
    /\ pc = "done"
    /\ np_l1_list.data = <<1, 10>>
    /\ np_ltsv_list.data = <<10, 1>>
    /\ result_L1 = <<10, 1, 10, 1>>
    /\ result_Ltsv = <<1, 1, 10, 10>>

\* C3: among trials that share the minimum mean MSE the first one visited is
\* selected, and the file copied to the best image name is that trial's
\* artifact.
C3_FirstMinimumWins ==
    best_solution # 0 =>
        /\ \A m \in 1..Len(result_mse) :
              MseLeq(result_mse[best_solution], result_mse[m])
        /\ \A m \in 1..(best_solution - 1) :
              ~MseLeq(result_mse[m], result_mse[best_solution])
        /\ (count["copy"] = 1 /\ count["remove"] = 0 /\ call = NoCall) =>
              storage[BestImageName(args.imageprefix)]
                  = storage[result_image[best_solution]]

\* a completed search where the second and a later trial tie for the minimum
C3_Witness ==
    /\ pc = "done"
    /\ best_solution = 2
    /\ \E m \in 3..Len(result_mse) :
          /\ MseLeq(result_mse[m], result_mse[2])
          /\ MseLeq(result_mse[2], result_mse[m])
    /\ count["get_mean_mse"] = Len(result_mse)

\* C4: with a fold count of 1, computegridmse returns the sentinel -1.0,
\* calls the solver for no fold and acquires no subset.
C4_DisabledCvReturnsSentinel ==
    [][(pc = "computegridmse" /\ visset = 1) =>
          /\ result_mse' = Append(result_mse, Sentinel)
          /\ count' = count
          /\ lastsolve' = lastsolve
          /\ subset' = subset
          /\ pc' = "inner"]_vars

\* two trials evaluated with a fold count of 1
C4_Witness ==
    /\ visset = 1
    /\ pc = "inner"
    /\ result_mse = <<Sentinel, Sentinel>>
    /\ count["mfista"] = 2

\* C5: the dictionary returned by a completed search holds the best L1, the
\* best Ltsv and the name of the best image under the key 'image'.
C5_ResultHasImage ==
    pc = "done" =>
        /\ DOMAIN ret = {"L1", "Ltsv", "image"}
        /\ ret["L1"] = best_L1
        /\ ret["Ltsv"] = best_Ltsv
        /\ ret["image"] = BestImageName(args.imageprefix)

\* C6: with imagepolicy 'best', after a completed search the only image file
\* on storage is the best image '<imageprefix>.<suffix>', for every candidate
\* list and every imageprefix.
C6_BestPolicyKeepsOnlyBest ==
    (pc = "done" /\ args.imagepolicy = "best") =>
        DOMAIN storage = {BestImageName(args.imageprefix)}

Distinct(s) == \A k, m \in 1..Len(s) : k # m => s[k] # s[m]

\* C7: with imagepolicy 'full', after a completed search of N trials the
\* storage holds one image file per trial and the best image: N + 1 files.
\* (Stated for candidate lists without repeated values, so that the N trials
\* are N different parameter pairs.)
C7_FullPolicyKeepsAll ==
    ( /\ pc = "done" /\ args.imagepolicy = "full"
      /\ Distinct(np_l1_list.data) /\ Distinct(np_ltsv_list.data) ) =>
        /\ \A k \in 1..Len(result_image) : result_image[k] \in DOMAIN storage
        /\ BestImageName(args.imageprefix) \in DOMAIN storage
        /\ Cardinality(DOMAIN storage) = NumTrials + 1

\* C8: no image file is deleted before the selection is finished and the best
\* image has been copied to '<imageprefix>.<suffix>'.
C8_CopyBeforeCleanup ==
    [][(\E n \in DOMAIN storage : n \notin DOMAIN storage') =>
          /\ pc = "remove"
          /\ best_solution # 0
          /\ count["argmin"] = 1
          /\ count["copy"] = 1]_vars

\* a completed search with imagepolicy 'best' that removed four trial images
C8_Witness ==
    /\ pc = "done"
    /\ args.imagepolicy = "best"
    /\ count["copy"] = 1
    /\ count["remove"] = 4
    /\ BestImageName(args.imageprefix) \in DOMAIN storage

ListInvalid(a) ==
    \/ a.dtype # "float64"
    \/ Len(a.data) = 0
    \/ \E k \in 1..Len(a.data) : a.data[k] <= 0

\* C9: a search that fails on its candidate lists (an empty list, a value that
\* is no number, a value outside the domain of a weight) fails before the
\* solver is called and before an image is written.
C9_RejectionBeforeSolver ==
    ( /\ pc = "raised"
      /\ err \in {"NameError", "ZeroDivisionError", "ValueError", "TypeError"}
      /\ ListInvalid(np_l1_list) \/ ListInvalid(np_ltsv_list) ) =>
        /\ count["mfista"] = 0
        /\ count["fold_mfista"] = 0
        /\ count["exportimage"] = 0
        /\ storage = NoFiles

\* C10: when the solver call of a fold fails the search ends there: no mean
\* MSE is recorded for the trial, nothing runs afterwards, no best result is
\* selected or returned, and no image is copied or removed.
C10_FoldFailureAborts ==
    (lastsolve.data = "visibility_active" /\ ~lastsolve.ok) =>
        /\ pc = "raised" /\ err = "SolverError"
        /\ Len(result_mse) = Len(result_L1) - 1
        /\ count["get_mean_mse"] = Len(result_mse)
        /\ best_solution = 0 /\ count["argmin"] = 0
        /\ ret = NoDict
        /\ count["copy"] = 0 /\ count["remove"] = 0
        /\ ~ENABLED Next

\* the second fold of the second trial fails after one fold was accumulated
C10_Witness ==
    /\ pc = "raised"
    /\ lastsolve.data = "visibility_active" /\ ~lastsolve.ok
    /\ Len(result_mse) = 1
    /\ fold = 1
    /\ evaluator.count = 1

\* the data lines of the trials recorded so far, in the order of the sweep
TrialLines ==
    [k \in 1..Len(result_mse) |->
        DataLine(result_L1[k], result_Ltsv[k], result_mse[k])]
InFolds == pc \in {"generate_subset", "fold_mfista", "evaluate", "release",
                   "get_mean_mse"}

\* C11: when a datafile name is given, after a completed search the file of
\* that name holds one line 'L1, Ltsv, MSE' per trial in the order of the
\* sweep (after the header line); when datafile is None no data file is
\* created or modified.
C11_DataFileHoldsTrials ==
    pc = "done" =>
        IF args.datafile # "None"
        THEN /\ Len(result_mse) = NumTrials
             /\ DataFile(args.datafile) = <<"# L1, Ltsv, MSE">> \o TrialLines
        ELSE cvresult = <<>>

\* C12: removing an image that is already absent, because its name occurs
\* twice in result_image, is no error.
C12_CleanupIdempotent == ~(pc = "raised" /\ err = "OSError")

\* C17: every fold evaluation of cvforgridvis(num_fold=K) uses K folds: the
\* fold count computegridmse reads is the num_fold argument of the search.
C17_FoldCountIsNumFold ==
    (pc = "computegridmse" \/ InFolds) => visset = args.num_fold

\* C18: no exported image of a trial is overwritten by the export of another
\* trial, and after a completed search the best image file holds the
\* full-data reconstruction of the winning (L1, Ltsv).
C18_BestImageIsWinningReconstruction ==
    /\ pc = "select" =>
          \A k \in 1..Len(result_image) :
              storage[result_image[k]] = <<result_L1[k], result_Ltsv[k]>>
    /\ (pc = "done" /\ BestImageName(args.imageprefix) \in DOMAIN storage) =>
          storage[BestImageName(args.imageprefix)] = <<best_L1, best_Ltsv>>

\* C19: the full-data solver call is made with overwriteinitialimage=True for
\* the first L1 visited of each Ltsv and with overwriteinitialimage=False for
\* the other L1 values of that Ltsv.
C19_OverwriteOnlyOnFirstL1 ==
    pc = "exportimage" =>
        /\ lastsolve.data = "griddedvis"
        /\ lastsolve.store
        /\ lastsolve.overwrite = (i = num_L1)

\* C14: with cross validation (K > 1) the evaluator of a trial is new at the
\* first fold and has one contribution per finished fold 0..K-1 of that trial
\* and none of another trial; the mean is asked for only once all K folds have
\* contributed, so every recorded mean is over exactly K contributions.
C14_MeanOverExactlyKFolds ==
    /\ pc \in {"generate_subset", "fold_mfista", "evaluate"} =>
           evaluator.count = fold /\ fold \in 0..(visset - 1)
    /\ pc = "release" => evaluator.count = fold + 1
    /\ pc = "get_mean_mse" => evaluator.count = visset /\ fold = visset - 1
    /\ (InTrial /\ ~CvDisabled(visset)) =>
           /\ count["get_mean_mse"] = Len(result_mse)
           /\ count["evaluate"] = visset * Len(result_mse)
                  + (IF InFolds THEN evaluator.count ELSE 0)
           /\ \A k \in 1..Len(result_mse) : result_mse[k][2] = visset

\* the mean of a second trial is about to be read after its K = 2 folds
C14_Witness ==
    /\ pc = "get_mean_mse"
    /\ visset = 2
    /\ Len(result_mse) = 1
    /\ evaluator.count = 2

\* C20: within a trial the order is full-data reconstruction, export, folds;
\* the next trial's reconstruction starts only when the folds of the trial
\* before it are finished and its subset released; a trial has exactly one
\* full-data reconstruction and one export.
C20_TrialOrder ==
    /\ pc = "mfista" =>
           /\ count["mfista"] = Len(result_L1) - 1
           /\ count["exportimage"] = Len(result_L1) - 1
           /\ Len(result_mse) = Len(result_L1) - 1
    /\ pc = "exportimage" =>
           /\ count["mfista"] = Len(result_L1)
           /\ count["exportimage"] = Len(result_L1) - 1
           /\ Len(result_mse) = Len(result_L1) - 1
           /\ lastsolve.data = "griddedvis"
    /\ (pc = "computegridmse" \/ InFolds) =>
           /\ count["mfista"] = Len(result_L1)
           /\ count["exportimage"] = Len(result_L1)
           /\ Len(result_mse) = Len(result_L1) - 1
    /\ (pc \in {"inner", "outer"} \/ SweepFinished) =>
           /\ count["mfista"] = Len(result_mse)
           /\ count["exportimage"] = Len(result_mse)
           /\ Len(result_L1) = Len(result_mse)
    /\ (pc \in {"mfista", "exportimage", "computegridmse", "inner", "outer"}
           /\ ~CvDisabled(visset)) =>
           /\ subset = 0
           /\ count["fold_mfista"] = visset * Len(result_mse)
           /\ count["release_subset"] = visset * Len(result_mse)
    /\ InFolds =>
           count["fold_mfista"] \in
               (visset * Len(result_mse))..(visset * Len(result_mse) + visset)
    /\ SweepFinished => Len(result_mse) = NumTrials

\* the second trial's reconstruction is about to start, after the two folds
\* of the first trial
C20_Witness ==
    /\ pc = "mfista"
    /\ Len(result_mse) = 1
    /\ count["fold_mfista"] = 2
    /\ count["exportimage"] = 1
\* C13: exportimage with overwrite=False on an existing path fails and leaves
\* the files as they were; getimage of a missing path fails and creates
\* nothing; exportimage with no image array held fails and leaves the files
\* as they were.
C13_FailedImageCallLeavesStorage ==
    [][pc' = "called" =>
          /\ (call'.op = "exportimage" /\ imagearray = <<>>) =>
                 (err' = "RuntimeError" /\ storage' = storage)
          /\ (call'.op = "exportimage" /\ ~call'.overwrite
                 /\ call'.imagename \in DOMAIN storage) =>
                 (err' = "RuntimeError" /\ storage' = storage)
          /\ (call'.op = "getimage" /\ call'.imagename \notin DOMAIN storage) =>
                 (err' = "RuntimeError" /\ storage' = storage
                    /\ call'.data = <<>>)]_vars

\* after a search, exportimage without overwrite was refused for a file that
\* holds another image than the one in memory
C13_Witness ==
    /\ pc = "called"
    /\ call.op = "exportimage" /\ ~call.overwrite
    /\ imagearray # <<>>
    /\ call.imagename \in DOMAIN storage
    /\ storage[call.imagename] # imagearray
    /\ err = "RuntimeError"

\* C15: in every fold the solver is given the active part of the subset of
\* that fold, never a held-out part, and the evaluator is given the held-out
\* part of the same subset with the image the solver reconstructed in that
\* fold.
C15_FoldSolverAndEvaluatorInputs ==
    /\ lastsolve.data # "visibility_cache"
    /\ pc = "evaluate" =>
           /\ lastsolve.data = "visibility_active" /\ lastsolve.ok
           /\ subset = fold + 1
           /\ fold_imagearray = FoldImage(L1, Ltsv, fold + 1)
    /\ pc = "release" =>
           /\ lasteval.cache = fold + 1
           /\ lasteval.image = FoldImage(L1, Ltsv, fold + 1)
    /\ (pc = "raised" /\ err = "EvaluatorError") =>
           /\ lasteval.cache = fold + 1
           /\ lasteval.image = FoldImage(L1, Ltsv, fold + 1)

\* the second fold of a trial has been evaluated
C15_Witness ==
    /\ pc = "release"
    /\ fold = 1
    /\ lasteval = [cache |-> 2, image |-> FoldImage(L1, Ltsv, 2)]

\* C16: at most one subset is held at a time, it is the subset of the running
\* fold, and every subset acquired is released before the next is acquired
\* and before computegridmse is left, also when the solver or the evaluator
\* raises inside the with-block.
C16_OneSubsetHeldAndReleased ==
    /\ count["generate_subset"] - count["release_subset"]
           = (IF subset # 0 THEN 1 ELSE 0)
    /\ subset # 0 =>
           /\ pc \in {"fold_mfista", "evaluate", "release"}
           /\ subset = fold + 1
    /\ pc \in {"generate_subset", "get_mean_mse", "raised"} => subset = 0

\* the evaluator failed in the second fold: both subsets were released
C16_Witness ==
    /\ pc = "raised" /\ err = "EvaluatorError"
    /\ count["generate_subset"] = 2
    /\ count["release_subset"] = 2
    /\ subset = 0
\* the search was left by an exception raised inside a fold
RaisedInFold ==
    /\ pc = "raised"
    /\ \/ err = "EvaluatorError"
       \/ err = "SolverError" /\ lastsolve.data = "visibility_active"

\* C21: the fold evaluations of a trial leave self.imagearray and the exported
\* image of the trial as the full-data reconstruction of the trial made them,
\* every solver call of a fold has storeinitialimage=False and
\* overwriteinitialimage=False, and the initial image the solver keeps during
\* and after the folds is the one of the trial's full-data reconstruction.
C21_FoldsLeaveImageAndWarmStart ==
    /\ lastsolve.data = "visibility_active" =>
           ~lastsolve.store /\ ~lastsolve.overwrite
    /\ (InFolds \/ RaisedInFold) =>
           /\ imagearray = <<L1, Ltsv>>
           /\ imagename \in DOMAIN storage
           /\ storage[imagename] = <<L1, Ltsv>>
           /\ initialimage = <<L1, Ltsv>>

\* the two folds of the second trial are finished
C21_Witness ==
    /\ pc = "get_mean_mse"
    /\ Len(result_mse) = 1
    /\ count["fold_mfista"] = 4
    /\ lastsolve = Solve("visibility_active", FALSE, FALSE, TRUE)
    /\ initialimage = <<L1, Ltsv>>
\* cvforgridvis has ended, by a return or by an exception of the solver, of
\* the export or of the evaluation, after initializecv was done
TerminatedAfterInitializeCV ==
    /\ j >= 1
    /\ \/ pc = "done"
       \/ pc = "raised" /\ err \in {"SolverError", "EvaluatorError", "RuntimeError"}

\* C22: whenever cvforgridvis ends after initializecv, by returning or by an
\* exception of the solver, the export or the evaluation, visset is None and
\* the data file is closed.
C22_TornDownOnTermination ==
    TerminatedAfterInitializeCV => (visset = NoVisset /\ f = "closed")

\* between two trials
TrialBoundary == pc \in {"inner", "outer"}

\* C23: at every trial boundary the four result lists have the same length,
\* entry k of each list is of the k-th trial of the sweep (its L1, its Ltsv,
\* the image name made of them, and the MSE written in its line of the data
\* file); at selection every list has one entry per trial and the selected
\* index is an index of all four.
C23_ResultListsAligned ==
    /\ (TrialBoundary \/ SweepFinished) =>
           /\ Len(result_Ltsv) = Len(result_L1)
           /\ Len(result_mse) = Len(result_L1)
           /\ Len(result_image) = Len(result_L1)
    /\ (TrialBoundary \/ InTrial \/ SweepFinished) =>
           /\ \A k \in 1..Len(result_L1) :
                  /\ result_L1[k] = sorted_l1_list[TrialI(k)]
                  /\ result_Ltsv[k] = sorted_ltsv_list[TrialJ(k)]
           /\ \A k \in 1..Len(result_image) :
                  result_image[k] = ImageName(result_L1[k], result_Ltsv[k])
           /\ (f = "cvresult.dat" \/ (SweepFinished /\ args.datafile # "None")) =>
                  cvresult = <<"# L1, Ltsv, MSE">> \o TrialLines
    /\ SweepFinished => Len(result_L1) = NumTrials
    /\ best_solution # 0 =>
           /\ best_solution \in 1..NumTrials
           /\ best_image = ImageName(best_L1, best_Ltsv)

\* selection over four trials with a data file, the MSE of the first two
\* trials being different
C23_Witness ==
    /\ pc = "copy"
    /\ Len(result_mse) = 4
    /\ args.datafile # "None"
    /\ result_mse[1] # result_mse[2]
    /\ best_solution = 2
\* the search has chosen its best trial
Selected == pc \in {"copy", "remove", "return", "done"}

\* C24: a search whose cross-validation state has fold count 1 records the
\* sentinel for every trial, reports that cross validation was not performed,
\* and returns and copies to the best image name the first trial of the sweep
\* (smallest Ltsv, largest L1); a search with a fold count above 1 records no
\* negative MSE and never reports that cross validation was not performed.
\* After finalizecv the searches with fold count 1 are those that never asked
\* for a mean MSE.
C24_DisabledCvReturnsFirstTrial ==
    /\ (TrialBoundary \/ InTrial \/ pc = "finalize") =>
           IF CvDisabled(visset)
           THEN /\ \A k \in 1..Len(result_mse) : result_mse[k] = Sentinel
                /\ count["get_mean_mse"] = 0
           ELSE /\ \A k \in 1..Len(result_mse) : CvPerformed(result_mse[k])
                /\ count["get_mean_mse"] = Len(result_mse)
    /\ Selected =>
           IF count["get_mean_mse"] = 0
           THEN /\ \A k \in 1..Len(result_mse) : result_mse[k] = Sentinel
                /\ report = "Cross-validation was not performed."
                /\ best_solution = 1
                /\ \A k \in 1..num_L1 : np_l1_list.data[k] <= best_L1
                /\ \A k \in 1..num_Ltsv : np_ltsv_list.data[k] >= best_Ltsv
                /\ (count["copy"] = 1 /\ count["remove"] = 0) =>
                       storage[BestImageName(args.imageprefix)]
                           = storage[result_image[1]]
                /\ pc = "done" =>
                       ret["L1"] = result_L1[1] /\ ret["Ltsv"] = result_Ltsv[1]
           ELSE /\ report = "Optimal result is as follows"
                /\ CvPerformed(best_mse)

\* a completed search of four trials with fold count 1
C24_Witness ==
    /\ pc = "done"
    /\ Len(result_mse) = 4
    /\ count["get_mean_mse"] = 0
    /\ report = "Cross-validation was not performed."
    /\ ret["L1"] = result_L1[1] /\ ret["Ltsv"] = result_Ltsv[1]
    /\ result_L1[1] > result_L1[2]
\* every attribute is None or of exactly its expected type
AttributesTyped ==
    /\ griddedvis \in {"None", "GriddedVisibilityStorage"}
    /\ imagearray \in {<<>>} \cup Images
    /\ uvgridconfig.type \in {"NoneType", "UVGridConfig"}

\* C25: assigning to griddedvis, imagearray or uvgridconfig a value that is
\* neither None nor of exactly the expected type raises TypeError and leaves
\* the three attributes as they were; assigning None or a value of the
\* expected type replaces the attribute without an error; so the attributes
\* stay None or of the expected type.
C25_SettersGuardType ==
    [][ /\ AttributesTyped /\ AttributesTyped'
        /\ err' = "TypeError" => UNCHANGED <<griddedvis, imagearray, uvgridconfig>>
        /\ \A v \in GriddedvisValues : SetGriddedvis(v) =>
               IF v \in {"None", "GriddedVisibilityStorage"}
               THEN griddedvis' = v /\ err' = ""
               ELSE err' = "TypeError"
        /\ \A v \in ImagearrayValues : SetImagearray(v) =>
               IF v.type \in {"NoneType", "ResultingImageStorage"}
               THEN imagearray' = v.image /\ err' = ""
               ELSE err' = "TypeError"
        /\ \A v \in UvgridconfigValues : SetUvgridconfig(v) =>
               IF v.type \in {"NoneType", "UVGridConfig"}
               THEN uvgridconfig' = v /\ err' = ""
               ELSE err' = "TypeError" ]_vars

\* an assignment was refused while all three attributes hold a value
C25_Witness ==
    /\ pc = "idle"
    /\ err = "TypeError"
    /\ griddedvis = "GriddedVisibilityStorage"
    /\ imagearray = <<10, 1>>
    /\ uvgridconfig = [type |-> "UVGridConfig", id |-> 2]
====
